---- MODULE Spec2Model ----
(***************************************************************************)
(* Model of the mpitest harness: the test registry (mpitest.h/mpitest.cpp), *)
(* the SPMD driver main() with its per-test communicator, and the failure  *)
(* aggregation protocol (MPI_Gather of counts, MPI_Issend / MPI_Recv of    *)
(* the failure messages, MPI_Waitall, world barrier).                      *)
(*                                                                         *)
(* Every process runs main(); an action is one step of one process.        *)
(* Indices are zero-based as in the source: test ti is tests[ti + 1].      *)
(*                                                                         *)
(* The comparison predicates of mpitest.h (assert_true, assert_eq,         *)
(* assert_ieee754_eq) are operators on their arguments; SpecAssert runs    *)
(* the assertion macros on them inside an entry point, and SpecEarly runs  *)
(* an assertion before main().                                             *)
(***************************************************************************)
EXTENDS Integers, Sequences, FiniteSets, TLC

\* ---------------------------------------------------------------- bounds
MaxProcs == 3      \* largest launched process count explored
MaxTests == 2      \* largest number of registered test cases explored
MaxSize  == 3      \* largest participant count a TEST may list
NSites   == 2      \* assertion sites evaluated by one entry point
MaxBodyDecls == 1  \* TEST declarations explored with entry points that return early
ExpBits == 2       \* exponent bits of the floating-point format explored
ManBits == 2       \* mantissa bits of the floating-point format explored
MaxUlpTol == 3     \* ulp_tol ranges over -MaxUlpTol..MaxUlpTol
MaxOperand == 2    \* operands of assert_true / assert_eq range over 0..MaxOperand

\* --------------------------------------------------------------- helpers
NULL == [id |-> -1, color |-> -1]          \* MPI_COMM_NULL
None == -1                                 \* no contribution to the gather yet

Min2(a, b) == IF a < b THEN a ELSE b

RECURSIVE SumTo(_, _)
SumTo(f, n) == IF n = 0 THEN 0 ELSE f[n - 1] + SumTo(f, n - 1)

RECURSIVE Flatten(_)
Flatten(ss) == IF ss = <<>> THEN <<>> ELSE Head(ss) \o Flatten(Tail(ss))

IsPrefix(s, t) == Len(s) <= Len(t) /\ SubSeq(t, 1, Len(s)) = s

\* ------------------------------------------------------------- variables
VARIABLES
  size,               \* MPI_Comm_size(MPI_COMM_WORLD)
  tests,              \* test_list::tests without the ledgers (same on every process)
  fails,              \* fails[p][ti + 1]: test_info::fails of case ti on process p
  current_test,       \* test_list::current_test on each process
  pc,                 \* position of each process in main()
  ti,                 \* loop variable of the test loop
  entered,            \* collectives on MPI_COMM_WORLD entered so far
  test_comm,          \* communicator handle held by each process
  site,               \* next assertion site of the running entry point
  r,                  \* loop variable of print()'s receive loop
  fi,                 \* loop variable over failures (send loop, receive loop)
  ri,                 \* loop variable over ranks in the receive loop
  gath,               \* counts contributed to MPI_Gather, not yet collected
  num_fails_by_rank,  \* the gathered counts (root only)
  num_fails_total,    \* sum computed by the root
  buf,                \* requests / statuses / error_message_send_buff allocated
  chan,               \* chan[s]: messages sent by s, in send order, unmatched
  out,                \* lines written to stdout, with the writing process
  ran,                \* ran[p]: cases whose entry point was invoked on p
  matched,            \* pairs <<layer of the receive, layer of the message>>
  issued,             \* issued[p]: tags of the MPI_Issend calls of p's send loop, per request
  received,           \* received[p]: <<source, tag>> of the MPI_Recv calls p's receive loops completed
  call,               \* the assertion under study: its arguments and what it returned
  test_decls          \* the TEST declarations, in the order they are initialised

vars == <<size, tests, fails, current_test, pc, ti, entered, test_comm, site,
          r, fi, ri, gath, num_fails_by_rank, num_fails_total, buf, chan, out,
          ran, matched, issued, received, call, test_decls>>

Ranks == DOMAIN pc

\* -------------------------------------------------------------- registry
\* Entry points are characterised by where their assertions stand relative
\* to the communication of print() in dummy.cpp:
\*   post   : print(), then assertions   (add_test, sub_test, float_add_test)
\*   mid    : the send of print(), assertions, then its receives and wait
\*   pre    : assertions, then print()
RepoBodies == {"post"}
EarlyBodies == {"mid", "pre"}

\* mutant: the listed sizes are appended last to first
add_test_reversed(list, test, test_sizes, name) ==
  list \o [i \in 1..Len(test_sizes) |->
             [fptr |-> test, test_size |-> test_sizes[Len(test_sizes) + 1 - i],
              test_name |-> name]]

\* add_test: one test_info per listed size, appended in the listed order.
add_test(list, test, test_sizes, name) ==
  list \o [i \in 1..Len(test_sizes) |->
             [fptr |-> test, test_size |-> test_sizes[i], test_name |-> name]]

\* Dynamic initialisation: the TEST declarations run in order before main().
RECURSIVE Registry(_, _)
Registry(decls, k) ==
  IF k = 0 THEN <<>>
  ELSE add_test(Registry(decls, k - 1), decls[k].fptr, decls[k].sizes, k)

SizeLists == UNION {[1..n -> 1..MaxSize] : n \in 1..Min2(2, MaxTests)}

Declarations(bodies, maxDecls) ==
  UNION {[1..n -> [fptr : bodies, sizes : SizeLists]] : n \in 0..maxDecls}

Registries(bodies, maxDecls) ==
  {t \in {Registry(d, Len(d)) : d \in Declarations(bodies, maxDecls)} :
     Len(t) <= MaxTests}

NTests == Len(tests)
Test(i) == tests[i + 1]

\* ------------------------------------------------------------------ init
\* no assertion is singled out: the entry points' comparisons are arbitrary
NoCall == [pred |-> "any", a |-> 0, b |-> 0, ulp_tol |-> 0, abs_tol |-> 0,
           evals |-> 0, ret |-> TRUE]

InitWith(bodies, maxDecls) ==
  /\ call = NoCall
  /\ size \in 1..MaxProcs
  /\ test_decls \in Declarations(bodies, maxDecls)
  /\ tests = Registry(test_decls, Len(test_decls))
  /\ tests \in Registries(bodies, maxDecls)
  /\ fails = [p \in 0..(size - 1) |-> [i \in 1..Len(tests) |-> <<>>]]
  /\ current_test = [p \in 0..(size - 1) |-> 0]
  /\ pc = [p \in 0..(size - 1) |-> "init"]
  /\ ti = [p \in 0..(size - 1) |-> 0]
  /\ entered = [p \in 0..(size - 1) |-> 0]
  /\ test_comm = [p \in 0..(size - 1) |-> NULL]
  /\ site = [p \in 0..(size - 1) |-> 1]
  /\ r = [p \in 0..(size - 1) |-> 0]
  /\ fi = [p \in 0..(size - 1) |-> 0]
  /\ ri = [p \in 0..(size - 1) |-> 0]
  /\ gath = [p \in 0..(size - 1) |-> None]
  /\ num_fails_by_rank = [p \in 0..(size - 1) |-> <<>>]
  /\ num_fails_total = [p \in 0..(size - 1) |-> 0]
  /\ buf = [p \in 0..(size - 1) |-> FALSE]
  /\ chan = [p \in 0..(size - 1) |-> <<>>]
  /\ out = <<>>
  /\ ran = [p \in 0..(size - 1) |-> <<>>]
  /\ matched = {}
  /\ issued = [p \in 0..(size - 1) |-> <<>>]
  /\ received = [p \in 0..(size - 1) |-> <<>>]

Init == InitWith(RepoBodies, MaxTests)
InitBody == InitWith(EarlyBodies, MaxBodyDecls)

\* ----------------------------------------------------------- collectives
\* mutant: a collective that lets a process through without the others
CollNoWait(p) == TRUE

\* MPI_Barrier / MPI_Comm_split on MPI_COMM_WORLD: a process leaves its k-th
\* collective once every process of the world has entered its k-th one.
CollDone(p) == \A q \in Ranks : entered[q] >= entered[p]

\* ---------------------------------------------------------------- stdout
Line(p, kind, t, text) == [by |-> p, kind |-> kind, test |-> t, text |-> text]

Printf(p, cond, kind, t, text) ==
  IF cond THEN Append(out, Line(p, kind, t, text)) ELSE out

\* ------------------------------------------------------- point to point
\* Every send of the program is addressed to rank 0 of test_comm.
Msg(comm, tag, layer, data) ==
  [comm |-> comm, dest |-> 0, tag |-> tag, layer |-> layer, data |-> data]

\* MPI matching is decided by communicator, source and tag, and among the
\* messages of one source by the order they were sent in, whatever order the
\* transport brings them in: the earliest such message (0 when none is
\* there, and the receive blocks).
RECURSIVE FirstMatch(_, _, _, _)
FirstMatch(q, comm, tag, k) ==
  IF k > Len(q) THEN 0
  ELSE IF q[k].comm = comm /\ q[k].tag = tag /\ q[k].dest = 0 THEN k
  ELSE FirstMatch(q, comm, tag, k + 1)

MatchIndex(src, comm, tag) == FirstMatch(chan[src], comm, tag, 1)

Remove(q, k) == SubSeq(q, 1, k - 1) \o SubSeq(q, k + 1, Len(q))

\* an MPI_Issend request is complete once its message has been matched
Pending(p, comm, layer) ==
  {k \in 1..Len(chan[p]) : chan[p][k].comm = comm /\ chan[p][k].layer = layer}


\* mutant: the record goes to the first case whatever case is running
register_error_first(p, assertion, reason) ==
  [fails EXCEPT ![p][1] =
                   Append(@, [assertion |-> assertion, reason |-> reason])]

\* ------------------------------------------------------ failure records
\* register_error: the record goes to the ledger of the case current_test
\* names on that process.
register_error(p, assertion, reason) ==
  [fails EXCEPT ![p][current_test[p] + 1] =
                   Append(@, [assertion |-> assertion, reason |-> reason])]

\* the assert_info an ASSERT_* / EXPECT_* macro builds at assertion site k
AssertInfo(k, flavor) == [line |-> k, test_string |-> flavor]

\* snprintf "  %s FAILED (on proc %d line %d of %s)\n    %s"
FormatFail(rank, f) ==
  <<f.assertion.test_string, "FAILED on proc", rank, "line", f.assertion.line,
    f.reason>>

\* ------------------------------------------------- IEEE 754 bit patterns
\* fxx is a binary format with one sign bit, ExpBits exponent bits and
\* ManBits mantissa bits; uxx is the unsigned integer of the same width. A
\* value of fxx is kept as its bit pattern. Magnitudes are counted in units
\* of the smallest subnormal, so every finite magnitude is an integer.
RECURSIVE Pow2(_)
Pow2(n) == IF n = 0 THEN 1 ELSE 2 * Pow2(n - 1)

Width == 1 + ExpBits + ManBits
Patterns == 0..(Pow2(Width) - 1)
SignBit == Pow2(Width - 1)
PosInf == SignBit - Pow2(ManBits)        \* exponent all ones, mantissa zero

ExpOf(u) == (u % SignBit) \div Pow2(ManBits)
ManOf(u) == u % Pow2(ManBits)

signbit(u) == u >= SignBit
isnan(u) == (u % SignBit) > PosInf
isinf(u) == (u % SignBit) = PosInf

\* |u| for a pattern that is not a NaN (the infinities come out above every
\* finite magnitude)
fabs(u) ==
  IF ExpOf(u) = 0 THEN ManOf(u)
  ELSE (Pow2(ManBits) + ManOf(u)) * Pow2(ExpOf(u) - 1)

Value(u) == IF signbit(u) THEN 0 - fabs(u) ELSE fabs(u)

\* the non-negative pattern at or just below the magnitude x
Below(x) ==
  CHOOSE u \in 0..PosInf : fabs(u) <= x /\ (u = PosInf \/ fabs(u + 1) > x)

\* rounding of an exact magnitude to fxx: to nearest, ties to the even
\* mantissa, overflow to infinity
Round(x) ==
  IF x >= fabs(PosInf) THEN fabs(PosInf)
  ELSE LET lo == Below(x)
           down == x - fabs(lo)
           up == fabs(lo + 1) - x
       IN  IF down < up THEN fabs(lo)
           ELSE IF up < down THEN fabs(lo + 1)
           ELSE IF lo % 2 = 0 THEN fabs(lo) ELSE fabs(lo + 1)

\* fabs(a - b) for a, b neither NaN nor infinite: the subtraction rounds
AbsDiff(a, b) ==
  Round(IF Value(a) >= Value(b) THEN Value(a) - Value(b)
        ELSE Value(b) - Value(a))

\* x < t and x > t for a magnitude x and a pattern t; false when t is a NaN
LessThan(x, t) == ~isnan(t) /\ x < Value(t)
GreaterThan(x, t) == ~isnan(t) /\ x > Value(t)

\* the usual arithmetic conversions bring the int ulp_tol to uxx before it
\* is compared with a uxx difference
ToUxx(i) == i % Pow2(Width)

\* ------------------------------------------------------ the predicates
\* What a predicate does: the value it returns and the reasons it hands to
\* register_error, in order.
Passed == [ret |-> TRUE, errs |-> <<>>]
Failed(reason) == [ret |-> FALSE, errs |-> <<reason>>]

\* assert_true (T is int here: zero is falsy)
assert_true(statement) ==
  IF statement # 0 THEN Passed ELSE Failed(<<statement, "is falsy">>)

\* assert_eq
assert_eq(a, b) ==
  IF a = b THEN Passed ELSE Failed(<<a, "does not equal", b>>)

\* lines 127-147: what the reason stream holds after the garbage checks
GarbageReason(a, b) ==
  (IF isnan(a) THEN <<"the first argument is nan!">>
   ELSE IF isinf(a) THEN <<"the first argument is inf!">>
   ELSE <<>>)
  \o
  (IF isnan(b) THEN <<"the second argument is nan!">>
   ELSE IF isinf(b) THEN <<"the second argument is inf!">>
   ELSE <<>>)

\* mutant: only the first operand is examined
quick_exit_first_only(a, b) == isnan(a) \/ isinf(a)

\* lines 125-149: quick_exit is set with every message
quick_exit(a, b) == isnan(a) \/ isinf(a) \/ isnan(b) \/ isinf(b)

\* lines 162-163: the absolute comparison applies
UsesAbsolute(a, b, abs_tol) ==
  \/ signbit(a) # signbit(b)
  \/ LessThan(fabs(a), abs_tol) /\ LessThan(fabs(b), abs_tol)

\* lines 184-209: the ulp comparison of the two patterns
UlpCompare(au, bu, ulp_tol) ==
  IF au > bu /\ au - bu > ToUxx(ulp_tol)
  THEN Failed(<<au, bu, "differ by", au - bu, "ULPs", ulp_tol>>)
  ELSE IF bu > au /\ bu - au > ToUxx(ulp_tol)
  THEN Failed(<<au, bu, "differ by", bu - au, "ULPs", ulp_tol>>)
  ELSE Passed

\* mutant: the garbage checks register each of their messages on its own
assert_ieee754_eq_per_message(a, b, ulp_tol, abs_tol) ==
  IF quick_exit(a, b)
  THEN [ret |-> FALSE,
        errs |-> [k \in 1..Len(GarbageReason(a, b)) |->
                    <<GarbageReason(a, b)[k]>>]]
  ELSE IF UsesAbsolute(a, b, abs_tol)
  THEN IF GreaterThan(AbsDiff(a, b), abs_tol)
       THEN Failed(<<"absolute difference", a, b, AbsDiff(a, b), abs_tol>>)
       ELSE Passed
  ELSE UlpCompare(a, b, ulp_tol)

\* assert_ieee754_eq
assert_ieee754_eq(a, b, ulp_tol, abs_tol) ==
  IF quick_exit(a, b) THEN Failed(GarbageReason(a, b))
  ELSE IF UsesAbsolute(a, b, abs_tol)
  THEN IF GreaterThan(AbsDiff(a, b), abs_tol)
       THEN Failed(<<"absolute difference", a, b, AbsDiff(a, b), abs_tol>>)
       ELSE Passed
  ELSE UlpCompare(a, b, ulp_tol)

\* ------------------------------------------------------------ main: start
\* lines 56-61
RECURSIVE LargestFrom(_, _)
LargestFrom(i, largest) ==
  IF i >= NTests THEN largest
  ELSE LargestFrom(i + 1, IF Test(i).test_size > largest
                          THEN Test(i).test_size ELSE largest)

largest_test_size == LargestFrom(0, 0)

\* mutant: the size check off by one
ShortfallOffByOne == size + 1 < largest_test_size

\* line 63: the launch is too small
Shortfall == size < largest_test_size

\* lines 43-46: blank lines from rank 0, then the first barrier
Startup(p) ==
  /\ pc[p] = "init"
  /\ out' = Printf(p, p = 0, "blank", -1, <<>>)
  /\ entered' = [entered EXCEPT ![p] = @ + 1]
  /\ pc' = [pc EXCEPT ![p] = "bar46"]
  /\ UNCHANGED <<issued, received, call, test_decls, size, tests, fails, current_test, ti, test_comm, site, r, fi,
                 ri, gath, num_fails_by_rank, num_fails_total, buf, chan, ran,
                 matched>>

\* lines 56-72: the size check; MPI_Finalize and return, or the second barrier
CheckSize(p) ==
  /\ pc[p] = "bar46"
  /\ CollDone(p)
  /\ IF Shortfall
     THEN /\ out' = Printf(p, p = 0, "short", -1, largest_test_size)
          /\ pc' = [pc EXCEPT ![p] = "done"]
          /\ UNCHANGED entered
     ELSE /\ entered' = [entered EXCEPT ![p] = @ + 1]
          /\ pc' = [pc EXCEPT ![p] = "bar72"]
          /\ UNCHANGED out
  /\ UNCHANGED <<issued, received, call, test_decls, size, tests, fails, current_test, ti, test_comm, site, r, fi,
                 ri, gath, num_fails_by_rank, num_fails_total, buf, chan, ran,
                 matched>>

\* lines 76-98: the loop test; current_test := ti and the call of
\* MPI_Comm_split, or MPI_Finalize after the last case (lines 223-224)
LoopHead(p, t) ==
  IF t < NTests
  THEN /\ current_test' = [current_test EXCEPT ![p] = t]
       /\ entered' = [entered EXCEPT ![p] = @ + 1]
       /\ pc' = [pc EXCEPT ![p] = "split"]
  ELSE /\ pc' = [pc EXCEPT ![p] = "done"]
       /\ UNCHANGED <<current_test, entered>>

\* line 72 returns, first iteration
BeginLoop(p) ==
  /\ pc[p] = "bar72"
  /\ CollDone(p)
  /\ LoopHead(p, ti[p])
  /\ UNCHANGED <<issued, received, call, test_decls, size, tests, fails, ti, test_comm, site, r, fi, ri, gath,
                 num_fails_by_rank, num_fails_total, buf, chan, out, ran,
                 matched>>

\* ------------------------------------------------------------ entry point
\* order of the steps of an entry point of each kind
Flow(kind) ==
  CASE kind = "post"   -> <<"b_send", "b_recv", "b_wait", "b_assert">>
    [] kind = "mid"    -> <<"b_send", "b_assert", "b_recv", "b_wait">>
    [] kind = "pre"    -> <<"b_assert", "b_send", "b_recv", "b_wait">>

\* print() receives on rank 0 only (dummy.cpp line 100)
Skips(p, step) == step = "b_recv" /\ p # 0

RECURSIVE FlowFrom(_, _, _)
FlowFrom(p, flow, k) ==
  IF k > Len(flow) THEN "gather"
  ELSE IF Skips(p, flow[k]) THEN FlowFrom(p, flow, k + 1)
  ELSE flow[k]

Position(flow, step) == CHOOSE k \in 1..Len(flow) : flow[k] = step

\* the step following `step` in the entry point of the case p is running;
\* "gather" when the entry point returns
After(p, step) ==
  LET flow == Flow(Test(ti[p]).fptr)
  IN  FlowFrom(p, flow, Position(flow, step) + 1)

FirstStep(p) == FlowFrom(p, Flow(Test(ti[p]).fptr), 1)

\* mutant: the membership test written with <=
ParticipatesOffByOne(p, t) == p <= Test(t).test_size

\* lines 94-115: MPI_Comm_split returns; participants print the start line
\* (rank 0) and invoke the entry point, the others go to the barrier
Participates(p, t) == p < Test(t).test_size

SplitDone(p) ==
  /\ pc[p] = "split"
  /\ CollDone(p)
  /\ IF Participates(p, ti[p])
     THEN /\ test_comm' = [test_comm EXCEPT ![p] = [id |-> ti[p], color |-> 1]]
          /\ out' = Printf(p, p = 0, "running", ti[p],
                           <<Test(ti[p]).test_name, Test(ti[p]).test_size>>)
          /\ ran' = [ran EXCEPT ![p] = Append(@, ti[p])]
          /\ site' = [site EXCEPT ![p] = 1]
          /\ pc' = [pc EXCEPT ![p] = FirstStep(p)]
          /\ UNCHANGED entered
     ELSE /\ test_comm' = [test_comm EXCEPT ![p] = [id |-> ti[p], color |-> 0]]
          /\ entered' = [entered EXCEPT ![p] = @ + 1]
          /\ pc' = [pc EXCEPT ![p] = "bar216"]
          /\ UNCHANGED <<out, ran, site>>
  /\ UNCHANGED <<issued, received, call, test_decls, size, tests, fails, current_test, ti, r, fi, ri, gath,
                 num_fails_by_rank, num_fails_total, buf, chan, matched>>

\* dummy.cpp lines 91-98: MPI_Issend of c_local to rank 0, tag is the rank
BodySend(p) ==
  /\ pc[p] = "b_send"
  /\ chan' = [chan EXCEPT ![p] =
                Append(@, Msg(test_comm[p], p, "body", <<"c_local", p>>))]
  /\ r' = [r EXCEPT ![p] = 0]
  /\ pc' = [pc EXCEPT ![p] = After(p, "b_send")]
  /\ UNCHANGED <<issued, received, call, test_decls, size, tests, fails, current_test, ti, entered, test_comm,
                 site, fi, ri, gath, num_fails_by_rank, num_fails_total, buf,
                 out, ran, matched>>

\* dummy.cpp lines 104-114: MPI_Recv from rank r with tag r, for each r
BodyRecv(p) ==
  /\ pc[p] = "b_recv"
  /\ LET k == MatchIndex(r[p], test_comm[p], r[p])
     IN  /\ k > 0
         /\ matched' = matched \cup {<<"body", chan[r[p]][k].layer>>}
         /\ chan' = [chan EXCEPT ![r[p]] = Remove(@, k)]
  /\ r' = [r EXCEPT ![p] = @ + 1]
  /\ pc' = [pc EXCEPT ![p] = IF r[p] + 1 < Test(ti[p]).test_size
                             THEN "b_recv" ELSE After(p, "b_recv")]
  /\ UNCHANGED <<issued, received, call, test_decls, size, tests, fails, current_test, ti, entered, test_comm,
                 site, fi, ri, gath, num_fails_by_rank, num_fails_total, buf,
                 out, ran>>

\* dummy.cpp lines 122-123: MPI_Wait on the request of the send
BodyWait(p) ==
  /\ pc[p] = "b_wait"
  /\ Pending(p, test_comm[p], "body") = {}
  /\ pc' = [pc EXCEPT ![p] = After(p, "b_wait")]
  /\ UNCHANGED <<issued, received, call, test_decls, size, tests, fails, current_test, ti, entered, test_comm,
                 site, r, fi, ri, gath, num_fails_by_rank, num_fails_total, buf,
                 chan, out, ran, matched>>

\* The entry points evaluate NSites assertions in a row: EXPECT_* ones and
\* a final ASSERT_*.
Flavor(k) == IF k = NSites THEN "ASSERT" ELSE "EXPECT"

\* One assertion site of the entry point. The comparison holds, or it fails
\* and records; ASSERT_* then returns from the entry point, EXPECT_* goes on.

BodyAssert(p) ==
  /\ pc[p] = "b_assert"
  /\ \E holds \in BOOLEAN :
       /\ fails' = IF holds THEN fails
                   ELSE register_error(p, AssertInfo(site[p], Flavor(site[p])),
                                       "mismatch")
       /\ IF ~holds /\ Flavor(site[p]) = "ASSERT"
          THEN /\ pc' = [pc EXCEPT ![p] = "gather"]
               /\ UNCHANGED site
          ELSE /\ site' = [site EXCEPT ![p] = @ + 1]
               /\ pc' = [pc EXCEPT ![p] = IF site[p] < NSites THEN "b_assert"
                                          ELSE After(p, "b_assert")]
  /\ UNCHANGED <<issued, received, call, test_decls, size, tests, current_test, ti, entered, test_comm, r, fi, ri,
                 gath, num_fails_by_rank, num_fails_total, buf, chan, out, ran,
                 matched>>


\* ------------------------------------------- assertions with their inputs
\* the string literal each macro puts in its assert_info (mpitest.h lines
\* 229, 233, 244, 248, 261, 268)
test_string(pred, flavor) ==
  CASE pred = "true" -> "EXPECT_TRUE"
    [] pred = "eq" /\ flavor = "EXPECT" -> "EXPECT_EQ"
    [] pred = "eq" /\ flavor = "ASSERT" -> "ASSERT_EQ"
    [] pred = "ieee" /\ flavor = "EXPECT" -> "EXPECT_FLOAT_EQ"
    [] pred = "ieee" /\ flavor = "ASSERT" -> "ASSERT_FLOAT_EQ"

\* std::numeric_limits<fxx>::epsilon(), the default abs_tol
epsilon == Below(Pow2(Pow2(ExpBits - 1) - 2))

UlpTols == (0 - MaxUlpTol)..MaxUlpTol
AbsTols == {0, epsilon, Pow2(ManBits) + 1, PosInf, PosInf + 1,
            SignBit + epsilon}

\* the macro invocations explored: the predicate and its arguments
Calls ==
  [pred : {"true"}, a : 0..MaxOperand, b : {0}, ulp_tol : {0}, abs_tol : {0},
   evals : {0}, ret : {TRUE}]
  \cup
  [pred : {"eq"}, a : 0..MaxOperand, b : 0..MaxOperand, ulp_tol : {0},
   abs_tol : {0}, evals : {0}, ret : {TRUE}]
  \cup
  [pred : {"ieee"}, a : Patterns, b : Patterns, ulp_tol : UlpTols,
   abs_tol : AbsTols, evals : {0}, ret : {TRUE}]

\* the predicate of a macro invocation applied to its arguments
Apply(c) ==
  CASE c.pred = "true" -> assert_true(c.a)
    [] c.pred = "eq" -> assert_eq(c.a, c.b)
    [] c.pred = "ieee" -> assert_ieee754_eq(c.a, c.b, c.ulp_tol, c.abs_tol)

\* register_error for each reason in turn
RegisterAll(p, assertion, errs) ==
  CASE Len(errs) = 0 -> fails
    [] Len(errs) = 1 -> register_error(p, assertion, errs[1])
    [] OTHER ->
         [fails EXCEPT ![p][current_test[p] + 1] =
            @ \o [k \in 1..Len(errs) |->
                    [assertion |-> assertion, reason |-> errs[k]]]]

\* One process of a one-process run has entered the entry point of the
\* first of two cases declared by TEST(name, 1, 1) and is at its first
\* assertion; the entry point evaluates the same macro arguments at each of
\* its sites, EXPECT_* first and ASSERT_* last.
InitAssert ==
  /\ call \in Calls
  /\ size = 1
  /\ test_decls = <<[fptr |-> "pre", sizes |-> <<1, 1>>]>>
  /\ tests = Registry(test_decls, Len(test_decls))
  /\ fails = [p \in {0} |-> <<<<>>, <<>>>>]
  /\ current_test = [p \in {0} |-> 0]
  /\ pc = [p \in {0} |-> "b_assert"]
  /\ ti = [p \in {0} |-> 0]
  /\ entered = [p \in {0} |-> 3]
  /\ test_comm = [p \in {0} |-> [id |-> 0, color |-> 1]]
  /\ site = [p \in {0} |-> 1]
  /\ r = [p \in {0} |-> 0]
  /\ fi = [p \in {0} |-> 0]
  /\ ri = [p \in {0} |-> 0]
  /\ gath = [p \in {0} |-> None]
  /\ num_fails_by_rank = [p \in {0} |-> <<>>]
  /\ num_fails_total = [p \in {0} |-> 0]
  /\ buf = [p \in {0} |-> FALSE]
  /\ chan = [p \in {0} |-> <<>>]
  /\ out = <<Line(0, "blank", -1, <<>>), Line(0, "running", 0, <<1, 1>>)>>
  /\ ran = [p \in {0} |-> <<0>>]
  /\ matched = {}
  /\ issued = [p \in {0} |-> <<>>]
  /\ received = [p \in {0} |-> <<>>]

\* One macro invocation: the predicate runs on the arguments, records what
\* it records, and ASSERT_* returns from the entry point when it failed.
Invoke(p) ==
  /\ pc[p] = "b_assert"
  /\ call.pred # "any"
  /\ LET res == Apply(call)
         flavor == Flavor(site[p])
     IN  /\ fails' = RegisterAll(p, AssertInfo(site[p],
                                               test_string(call.pred, flavor)),
                                 res.errs)
         /\ call' = [call EXCEPT !.evals = @ + 1, !.ret = res.ret]
         /\ IF ~res.ret /\ flavor = "ASSERT"
            THEN /\ pc' = [pc EXCEPT ![p] = "gather"]
                 /\ UNCHANGED site
            ELSE /\ site' = [site EXCEPT ![p] = @ + 1]
                 /\ pc' = [pc EXCEPT ![p] = IF site[p] < NSites THEN "b_assert"
                                            ELSE After(p, "b_assert")]
  /\ UNCHANGED <<issued, received, test_decls, size, tests, current_test, ti, entered,
                 test_comm, r, fi,
                 ri, gath, num_fails_by_rank, num_fails_total, buf, chan, out,
                 ran, matched>>

\* --------------------------------------------------- failure aggregation
Participants(t) == {q \in Ranks : Participates(q, t)}

\* mutant: a process hands over a flag, not the number of its failures
ContributeFlag(p, n) == [gath EXCEPT ![p] = Min2(n, 1)]

\* MPI_Gather on a non-root rank: hand the count over and go on
Contribute(p, n) == [gath EXCEPT ![p] = n]

\* MPI_Gather on the root returns once every participant has contributed
GatherReady(p) ==
  \A q \in Participants(ti[p]) \ {p} : gath[q] # None

\* mutant: the root's own count does not reach the receive buffer
GatheredWithoutRoot(p, n) ==
  [q \in 0..(Test(ti[p]).test_size - 1) |-> IF q = p THEN 0 ELSE gath[q]]

\* the receive buffer of the gather, indexed by rank
Gathered(p, n) ==
  [q \in 0..(Test(ti[p]).test_size - 1) |-> IF q = p THEN n ELSE gath[q]]

\* the message a receive posted by the root for (source, tag) gets: index
\* into chan[source], 0 while the receive blocks
RecvMatch(p, source, tag) == MatchIndex(source, test_comm[p], tag)

\* mutant: the inner loop posts a receive for a rank before testing its count
NextRecvNoSkip(counts, n, i, f) ==
  IF i >= n THEN [ri |-> n, fi |-> 0] ELSE [ri |-> i, fi |-> f]

\* lines 182-184: the receive loops step to the next (ri, fi) with
\* fi < counts[ri]; ri reaches n when no receive is left
RECURSIVE NextRecv(_, _, _, _)
NextRecv(counts, n, i, f) ==
  IF i >= n THEN [ri |-> n, fi |-> 0]
  ELSE IF f < counts[i] THEN [ri |-> i, fi |-> f]
  ELSE NextRecv(counts, n, i + 1, 0)

\* where a process goes when its send loop (lines 159-177) has ended: the
\* root to its first receive (line 180), the others to MPI_Waitall
AfterSend(p, counts) ==
  IF p = 0 /\ NextRecv(counts, Test(ti[p]).test_size, 0, 0).ri < Test(ti[p]).test_size
  THEN "recv" ELSE "waitall"

\* mutant: the failure line is printed whatever the total
PrintsFailAlways(p, total) == p = 0

\* mutant: the success line is printed whatever the total
PrintsSuccessAlways(p, total) == p = 0

\* line 144 and line 212: which summary line the root prints
PrintsSuccess(p, total) == p = 0 /\ total = 0
PrintsFail(p, total) == p = 0 /\ total # 0

\* lines 123-158: MPI_Gather of the local count; the root sums and prints
\* the success line; requests, statuses and the send buffer are allocated
Gather(p) ==
  /\ pc[p] = "gather"
  /\ LET n == Len(fails[p][ti[p] + 1])
         counts == Gathered(p, n)
         total == SumTo(counts, Test(ti[p]).test_size)
     IN  /\ IF p = 0
            THEN /\ GatherReady(p)
                 /\ num_fails_by_rank' = [num_fails_by_rank EXCEPT ![p] = counts]
                 /\ num_fails_total' = [num_fails_total EXCEPT ![p] = total]
                 /\ out' = Printf(p, PrintsSuccess(p, total), "success", ti[p],
                                  Test(ti[p]).test_name)
                 /\ gath' = [q \in Ranks |-> None]
            ELSE /\ gath' = Contribute(p, n)
                 /\ num_fails_total' = [num_fails_total EXCEPT ![p] = 0]
                 /\ UNCHANGED <<num_fails_by_rank, out>>
         /\ pc' = [pc EXCEPT ![p] = IF n > 0 THEN "send" ELSE AfterSend(p, counts)]
         /\ ri' = [ri EXCEPT ![p] =
                     IF p = 0 THEN NextRecv(counts, Test(ti[p]).test_size, 0, 0).ri
                     ELSE 0]
  /\ buf' = [buf EXCEPT ![p] = TRUE]
  /\ issued' = [issued EXCEPT ![p] = <<>>]
  /\ received' = [received EXCEPT ![p] = <<>>]
  /\ fi' = [fi EXCEPT ![p] = 0]
  /\ UNCHANGED <<call, test_decls, size, tests, fails, current_test, ti, entered, test_comm,
                 site, r, chan, ran, matched>>

\* mutant: the tag counts down from the last failure
SendTagReversed(p, f) == Len(fails[p][ti[p] + 1]) - 1 - f

\* mutant: the tag counts from one
SendTagOneBased(p, f) == f + 1

\* line 174: the tag of the send of failure f
SendTag(p, f) == f

\* lines 159-177: one turn of the send loop: snprintf into the buffer and
\* MPI_Issend to rank 0 with the failure index as tag
Send(p) ==
  /\ pc[p] = "send"
  /\ chan' = [chan EXCEPT ![p] =
                Append(@, Msg(test_comm[p], SendTag(p, fi[p]), "fail",
                              FormatFail(p, fails[p][ti[p] + 1][fi[p] + 1])))]
  /\ IF fi[p] + 1 < Len(fails[p][ti[p] + 1])
     THEN /\ fi' = [fi EXCEPT ![p] = @ + 1]
          /\ UNCHANGED pc
     ELSE /\ fi' = [fi EXCEPT ![p] = 0]
          /\ pc' = [pc EXCEPT ![p] = AfterSend(p, num_fails_by_rank[p])]
  /\ issued' = [issued EXCEPT ![p] = Append(@, SendTag(p, fi[p]))]
  /\ UNCHANGED <<received, call, test_decls, size, tests, fails, current_test, ti, entered, test_comm,
                 site, r, ri, gath, num_fails_by_rank, num_fails_total, buf, out,
                 ran, matched>>

\* lines 180-199: one turn of the root's receive loops: MPI_Recv from rank
\* ri with tag fi and printf of what arrived
Recv(p) ==
  /\ pc[p] = "recv"
  /\ LET k == RecvMatch(p, ri[p], fi[p])
         next == NextRecv(num_fails_by_rank[p], Test(ti[p]).test_size,
                          ri[p], fi[p] + 1)
     IN  /\ k > 0
         /\ out' = Printf(p, TRUE, "msg", ti[p], chan[ri[p]][k].data)
         /\ matched' = matched \cup {<<"fail", chan[ri[p]][k].layer>>}
         /\ chan' = [chan EXCEPT ![ri[p]] = Remove(@, k)]
         /\ ri' = [ri EXCEPT ![p] = next.ri]
         /\ fi' = [fi EXCEPT ![p] = next.fi]
         /\ pc' = [pc EXCEPT ![p] = IF next.ri < Test(ti[p]).test_size
                                    THEN "recv" ELSE "waitall"]
  /\ received' = [received EXCEPT ![p] = Append(@, <<ri[p], fi[p]>>)]
  /\ UNCHANGED <<issued, call, test_decls, size, tests, fails, current_test, ti, entered, test_comm,
                 site, r, gath, num_fails_by_rank, num_fails_total, buf, ran>>

\* mutant: the buffers are deleted without waiting for the requests
WaitallSkipped(p) == TRUE

\* MPI_Waitall returns when every request of the send loop is complete
WaitallDone(p) == Pending(p, test_comm[p], "fail") = {}

\* lines 204-216: MPI_Waitall returns, the buffers are deleted, the root
\* prints the failure line, and the process enters the world barrier
Finish(p) ==
  /\ pc[p] = "waitall"
  /\ WaitallDone(p)
  /\ buf' = [buf EXCEPT ![p] = FALSE]
  /\ out' = Printf(p, PrintsFail(p, num_fails_total[p]), "fail", ti[p],
                   Test(ti[p]).test_name)
  /\ entered' = [entered EXCEPT ![p] = @ + 1]
  /\ pc' = [pc EXCEPT ![p] = "bar216"]
  /\ UNCHANGED <<issued, received, call, test_decls, size, tests, fails, current_test, ti, test_comm, site, r, fi,
                 ri, gath, num_fails_by_rank, num_fails_total, chan, ran,
                 matched>>

\* lines 216-219 and 76: the barrier returns, MPI_Comm_free, ++ti, loop test
EndIter(p) ==
  /\ pc[p] = "bar216"
  /\ CollDone(p)
  /\ test_comm' = [test_comm EXCEPT ![p] = NULL]
  /\ ti' = [ti EXCEPT ![p] = @ + 1]
  /\ LoopHead(p, ti[p] + 1)
  /\ UNCHANGED <<issued, received, call, test_decls, size, tests, fails, site, r, fi, ri, gath, num_fails_by_rank,
                 num_fails_total, buf, chan, out, ran, matched>>

\* ------------------------------------------------------- specifications
Next ==
  \/ \E p \in Ranks : Startup(p)
  \/ \E p \in Ranks : CheckSize(p)
  \/ \E p \in Ranks : BeginLoop(p)
  \/ \E p \in Ranks : SplitDone(p)
  \/ \E p \in Ranks : BodySend(p)
  \/ \E p \in Ranks : BodyRecv(p)
  \/ \E p \in Ranks : BodyWait(p)
  \/ \E p \in Ranks : BodyAssert(p)
  \/ \E p \in Ranks : Gather(p)
  \/ \E p \in Ranks : Send(p)
  \/ \E p \in Ranks : Recv(p)
  \/ \E p \in Ranks : Finish(p)
  \/ \E p \in Ranks : EndIter(p)

\* entry points as in the repository: their communication is complete on return
Spec == Init /\ [][Next]_vars

\* entry points that may also return with their communication unfinished
SpecBody == InitBody /\ [][Next]_vars

\* the assertion macros on their arguments, inside an entry point
NextAssert == \E p \in Ranks : Invoke(p)

SpecAssert == InitAssert /\ [][NextAssert]_vars


\* A variable with dynamic initialisation that evaluates a failing
\* EXPECT_TRUE, declared after the TEST declarations: the assertion runs on
\* every process before main() has run, with current_test zero-initialised
\* and a registry that holds at least one case.
InitEarly == InitWith(RepoBodies, MaxBodyDecls) /\ Len(tests) > 0

Initialised(p) == fails[p][1] # <<>>

EarlyAssert(p) ==
  /\ pc[p] = "init"
  /\ ~Initialised(p)
  /\ fails' = RegisterAll(p, AssertInfo(0, test_string("true", "EXPECT")),
                          assert_true(0).errs)
  /\ UNCHANGED <<issued, received, call, test_decls, size, tests, current_test, pc, ti, entered, test_comm,
                 site, r, fi, ri, gath, num_fails_by_rank, num_fails_total, buf,
                 chan, out, ran, matched>>

NextEarly ==
  \/ \E p \in Ranks : EarlyAssert(p)
  \/ \E p \in Ranks : Initialised(p) /\ Startup(p)
  \/ \E p \in Ranks : CheckSize(p)
  \/ \E p \in Ranks : BeginLoop(p)
  \/ \E p \in Ranks : SplitDone(p)
  \/ \E p \in Ranks : BodySend(p)
  \/ \E p \in Ranks : BodyRecv(p)
  \/ \E p \in Ranks : BodyWait(p)
  \/ \E p \in Ranks : BodyAssert(p)
  \/ \E p \in Ranks : Gather(p)
  \/ \E p \in Ranks : Send(p)
  \/ \E p \in Ranks : Recv(p)
  \/ \E p \in Ranks : Finish(p)
  \/ \E p \in Ranks : EndIter(p)

SpecEarly == InitEarly /\ [][NextEarly]_vars

\* ================================================================ claims
AllDone == \A p \in Ranks : pc[p] = "done"

\* some registered case needs more processes than were launched
TooFew == \E t \in 0..(NTests - 1) : size < Test(t).test_size

\* the cases process p takes part in, in registration order
CasesOf(p) ==
  SelectSeq([i \in 1..NTests |-> i - 1], LAMBDA t : p < Test(t).test_size)

\* the lines of a kind among `kinds`, in the order they were printed
LinesOf(kinds) == SelectSeq(out, LAMBDA l : l.kind \in kinds)

\* texts of the failure lines printed while case t was the running case
FailLines(t) ==
  LET ls == SelectSeq(out, LAMBDA l : l.kind = "msg" /\ l.test = t)
  IN  [k \in 1..Len(ls) |-> ls[k].text]

\* the ledger of case t on rank q, each record as its failure message
LedgerLines(q, t) ==
  [k \in 1..Len(fails[q][t + 1]) |-> FormatFail(q, fails[q][t + 1][k])]

\* the participants of case t that were launched, in ascending rank order
RanksOf(t) == [i \in 1..Min2(Test(t).test_size, size) |-> i - 1]

\* all failure messages of case t: by ascending rank, then by ledger index
ExpectedLines(t) ==
  Flatten([i \in 1..Len(RanksOf(t)) |-> LedgerLines(RanksOf(t)[i], t)])

\* the root has left the receive loops of case t
Reported(t) ==
  \/ ti[0] > t
  \/ ti[0] = t /\ pc[0] \in {"waitall", "bar216"}

\* ---- C1: with enough processes, each entry point is invoked exactly once
\* on every process with rank < test_size, on no other process, and in
\* registration order: the invocations of a process are always a prefix of
\* its cases in registration order, and all of them once it has finished.
C1_RunOnceInOrder ==
  ~TooFew =>
    \A p \in Ranks :
      /\ IsPrefix(ran[p], CasesOf(p))
      /\ pc[p] = "done" => ran[p] = CasesOf(p)

C1_Witness ==
  /\ AllDone
  /\ ran[0] = <<0, 1>>
  /\ \E q \in Ranks : ran[q] = <<1>>

\* ---- C2: the failure messages of a case are printed by ascending rank
\* and, within a rank, by ascending ledger index, whatever the order the
\* participants sent them in: what is printed is always a prefix of the
\* ledgers laid out in that order.
C2_PrintedInRankThenIndexOrder ==
  \A t \in 0..(NTests - 1) : IsPrefix(FailLines(t), ExpectedLines(t))

\* rank 1 sent both its messages before rank 0 sent its own; all are printed
C2_Witness ==
  \E t \in 0..(NTests - 1) :
    /\ Reported(t)
    /\ Len(fails[0][t + 1]) = 1
    /\ Test(t).test_size >= 2 /\ Len(fails[1][t + 1]) = 2
    /\ Len(FailLines(t)) >= 3

\* ---- C3: every failure record of a case is printed exactly once, by
\* rank 0: once the root has left the receive loops of the case, the number
\* of failure lines is the sum of the participants' ledger sizes and each
\* record's message occurs exactly once; no other process prints a line.
C3_EachRecordOnceByRoot ==
  /\ \A k \in 1..Len(out) : out[k].by = 0
  /\ \A t \in 0..(NTests - 1) :
       Reported(t) =>
         /\ Len(FailLines(t)) =
              SumTo([q \in 0..(Len(RanksOf(t)) - 1) |-> Len(fails[q][t + 1])],
                    Len(RanksOf(t)))
         /\ \A i \in 1..Len(RanksOf(t)) :
              \A k \in 1..Len(fails[i - 1][t + 1]) :
                Cardinality({j \in 1..Len(FailLines(t)) :
                               FailLines(t)[j] = LedgerLines(i - 1, t)[k]}) = 1

C3_Witness ==
  \E t \in 0..(NTests - 1) :
    /\ Reported(t)
    /\ Test(t).test_size = 3
    /\ Len(fails[0][t + 1]) = 0
    /\ Len(fails[1][t + 1]) = 2
    /\ Len(fails[2][t + 1]) = 1
    /\ Len(FailLines(t)) = 3


\* ---- C4: the aggregation protocol never deadlocks: the program can take a
\* step until every process has finished; the receive the root is blocked in
\* is for a failure message that is in the channel or that its sender has
\* yet to issue; and the sends a process waits for in MPI_Waitall are ones
\* the root has yet to receive.
BeforeRecv == {"b_send", "b_recv", "b_wait", "b_assert", "gather", "send"}

RecvWillMatch ==
  pc[0] = "recv" =>
    \/ /\ RecvMatch(0, ri[0], fi[0]) > 0
       /\ chan[ri[0]][RecvMatch(0, ri[0], fi[0])].layer = "fail"
    \/ /\ RecvMatch(0, ri[0], fi[0]) = 0
       /\ ti[ri[0]] = ti[0]
       /\ pc[ri[0]] = "send"
       /\ fi[ri[0]] <= fi[0]
       /\ fi[0] < Len(fails[ri[0]][ti[0] + 1])

WaitWillReturn ==
  \A p \in Ranks :
    pc[p] = "waitall" =>
      \A k \in Pending(p, test_comm[p], "fail") :
        /\ ti[0] = ti[p]
        /\ \/ pc[0] \in BeforeRecv
           \/ /\ pc[0] = "recv"
              /\ chan[p][k].tag < num_fails_by_rank[0][p]
              /\ \/ ri[0] < p
                 \/ ri[0] = p /\ fi[0] <= chan[p][k].tag

C4_NoDeadlock ==
  /\ AllDone \/ ENABLED Next
  /\ RecvWillMatch
  /\ WaitWillReturn

\* the root is blocked in a receive for a message not yet sent while another
\* participant is blocked in MPI_Waitall
C4_Witness ==
  /\ pc[0] = "recv"
  /\ RecvMatch(0, ri[0], fi[0]) = 0
  /\ \E p \in Ranks \ {0} : pc[p] = "waitall" /\ ~WaitallDone(p)

\* ---- C5: when the launch is smaller than some case's test_size, no case
\* executes on any process (no communicator is made, no entry point is
\* invoked, nothing is recorded, no start, failure or summary line is
\* printed) and the fault is reported once, by rank 0, naming the largest
\* test_size.
C5_ShortfallRunsNothing ==
  TooFew =>
    /\ \A p \in Ranks :
         /\ ran[p] = <<>>
         /\ test_comm[p] = NULL
         /\ pc[p] \in {"init", "bar46", "done"}
         /\ \A t \in 0..(NTests - 1) : fails[p][t + 1] = <<>>
    /\ LinesOf({"running", "success", "fail", "msg"}) = <<>>
    /\ Len(LinesOf({"short"})) <= 1
    /\ \A k \in 1..Len(out) :
         out[k].kind = "short" =>
           /\ out[k].by = 0
           /\ \A t \in 0..(NTests - 1) : Test(t).test_size <= out[k].text
    /\ pc[0] = "done" => Len(LinesOf({"short"})) = 1

C5_Witness ==
  /\ TooFew
  /\ size >= 2
  /\ AllDone
  /\ Len(LinesOf({"short"})) = 1

\* ---- C6: with enough processes, the report holds for each case one start
\* line and, later, one summary line (success or failure) of that case; the
\* pairs come in declaration order and the start line of a case comes after
\* the summary line of the case before it.
Report == LinesOf({"running", "success", "fail"})

C6_StartSummaryPairs ==
  ~TooFew =>
    /\ Len(Report) <= 2 * NTests
    /\ \A k \in 1..Len(Report) :
         LET t == (k - 1) \div 2
         IN  /\ Report[k].test = t
             /\ k % 2 = 1 =>
                  /\ Report[k].kind = "running"
                  /\ Report[k].text = <<Test(t).test_name, Test(t).test_size>>
             /\ k % 2 = 0 =>
                  /\ Report[k].kind \in {"success", "fail"}
                  /\ Report[k].text = Test(t).test_name
    /\ AllDone => Len(Report) = 2 * NTests

C6_Witness ==
  /\ AllDone
  /\ Len(Report) = 4
  /\ Report[2].kind = "success"
  /\ Report[4].kind = "fail"

\* ---- C7: no two cases overlap: when a process has called MPI_Comm_split
\* of a case, every process has finished the aggregation of the case before
\* and is in the world barrier that ends it, or beyond; while a process is
\* in an entry point or in the aggregation of a case, every process has
\* left the barrier of the case before and none has left the barrier of
\* this one; and every message in flight belongs to the case its sender is
\* running.
InCase(p) == pc[p] \notin {"init", "bar46", "bar72", "done"}

Active(p) == pc[p] \in BeforeRecv \cup {"recv", "waitall"}

C7_NoOverlap ==
  /\ \A p, q \in Ranks :
       InCase(p) =>
         \/ ti[q] >= ti[p] /\ pc[q] \notin {"init", "bar46"}
         \/ ti[q] + 1 = ti[p] /\ pc[q] = "bar216"
  /\ \A p, q \in Ranks : Active(p) => ti[q] = ti[p] /\ InCase(q)
  /\ \A p \in Ranks :
       \A k \in 1..Len(chan[p]) : Active(p) /\ chan[p][k].comm.id = ti[p]

\* a process has called MPI_Comm_split of the second case while another is
\* still in the barrier of the first
C7_Witness ==
  \E p, q \in Ranks :
    /\ pc[p] = "split" /\ ti[p] = 1
    /\ pc[q] = "bar216" /\ ti[q] = 0

\* ---- C8: test traffic and harness traffic are isolated: a receive of the
\* aggregation protocol never gets a message sent by an entry point, and a
\* receive of an entry point never gets a failure message.
C8_Isolation == matched \subseteq {<<"body", "body">>, <<"fail", "fail">>}

\* ---- C9: an assertion failure stays in its case: a step that changes a
\* ledger appends one record to the ledger of the case running on that
\* process and changes no other ledger; and in a finished run every case has
\* run and has one summary line, the success line exactly when no
\* participant recorded a failure in that case.
LedgerStep ==
  \A p \in Ranks : \A t \in 0..(NTests - 1) :
    fails'[p][t + 1] # fails[p][t + 1] =>
      /\ t = ti[p]
      /\ pc[p] = "b_assert"
      /\ Len(fails'[p][t + 1]) = Len(fails[p][t + 1]) + 1
      /\ SubSeq(fails'[p][t + 1], 1, Len(fails[p][t + 1])) = fails[p][t + 1]
      /\ \A q \in Ranks : \A u \in 0..(NTests - 1) :
           <<q, u>> # <<p, t>> => fails'[q][u + 1] = fails[q][u + 1]

SummaryLines(t) ==
  SelectSeq(out, LAMBDA l : l.kind \in {"success", "fail"} /\ l.test = t)

NoFailureIn(t) == \A q \in Ranks : fails[q][t + 1] = <<>>

SummariesFollowLedgers ==
  (AllDone /\ ~TooFew) =>
    \A t \in 0..(NTests - 1) :
      /\ \E k \in 1..Len(ran[0]) : ran[0][k] = t
      /\ Len(SummaryLines(t)) = 1
      /\ SummaryLines(t)[1].kind = "success" <=> NoFailureIn(t)

C9_FailuresStayInTheirCase == [][LedgerStep]_vars /\ []SummariesFollowLedgers

C9_Witness ==
  /\ AllDone
  /\ NTests = 2
  /\ ~NoFailureIn(0)
  /\ NoFailureIn(1)
  /\ SummaryLines(0)[1].kind = "fail"
  /\ SummaryLines(1)[1].kind = "success"

\* ---- C10: the send buffer and the requests outlive the sends: while a
\* failure message of a process is unmatched its buffers are allocated, and
\* the buffers exist only between the gather and the return of MPI_Waitall,
\* so they are released before the process goes on to the next case.
C10_BuffersOutliveSends ==
  \A p \in Ranks :
    /\ (\E k \in 1..Len(chan[p]) : chan[p][k].layer = "fail") => buf[p]
    /\ buf[p] => pc[p] \in {"send", "recv", "waitall"}

\* a process other than the root has released its buffers after two sends
C10_Witness ==
  \E p \in Ranks \ {0} :
    /\ pc[p] = "bar216"
    /\ Participates(p, ti[p])
    /\ Len(fails[p][ti[p] + 1]) = 2
    /\ ~buf[p]

\* the ledger of the case current_test names on process p
Ledger(p) == fails[p][current_test[p] + 1]

\* either operand of the tolerance predicate is a NaN or an infinity
Garbage(c) == isnan(c.a) \/ isinf(c.a) \/ isnan(c.b) \/ isinf(c.b)

\* ---- C11: a comparison predicate that succeeds returns true and changes
\* no ledger; one that fails returns false and appends exactly one record to
\* the ledger of the current case and changes no other ledger, also when
\* both operands of the tolerance predicate are NaN or infinite. EXPECT_*
\* and ASSERT_* on the same arguments record the same reason, one record
\* each, and only a failed ASSERT_* leaves the entry point.
C11_CallStep ==
  \A p \in Ranks :
    LET t == current_test[p]
    IN  /\ call.pred = "true" => (call'.ret <=> call.a # 0)
        /\ call.pred = "eq" => (call'.ret <=> call.a = call.b)
        /\ (call.pred = "ieee" /\ Garbage(call)) => ~call'.ret
        /\ call'.ret => fails' = fails
        /\ ~call'.ret =>
             /\ Len(fails'[p][t + 1]) = Len(fails[p][t + 1]) + 1
             /\ SubSeq(fails'[p][t + 1], 1, Len(fails[p][t + 1]))
                  = fails[p][t + 1]
             /\ fails'[p][t + 1][Len(fails'[p][t + 1])].assertion.line = site[p]
             /\ \A u \in 0..(NTests - 1) :
                  u # t => fails'[p][u + 1] = fails[p][u + 1]
        /\ IF ~call'.ret /\ Flavor(site[p]) = "ASSERT"
           THEN pc'[p] = "gather" /\ site'[p] = site[p]
           ELSE pc'[p] # "gather" /\ site'[p] = site[p] + 1

C11_SameRecord ==
  \A p \in Ranks :
    (call.evals = NSites /\ ~call.ret) =>
      /\ Len(Ledger(p)) = NSites
      /\ \A k \in 1..NSites : Ledger(p)[k].reason = Ledger(p)[1].reason

C11_OneRecordPerFailure == [][C11_CallStep]_vars /\ []C11_SameRecord

\* a NaN against an infinity, through EXPECT_* and then ASSERT_*
C11_Witness ==
  /\ call.pred = "ieee" /\ isnan(call.a) /\ isinf(call.b)
  /\ call.evals = NSites
  /\ pc[0] = "gather"
  /\ Len(Ledger(0)) = NSites

\* ---- C12: a failure recorded while no case is marked active is dropped:
\* as long as main() has not set current_test on a process, every ledger of
\* that process is empty.
C12_NoActiveCaseDropsRecord ==
  \A p \in Ranks :
    pc[p] \in {"init", "bar46", "bar72"} =>
      \A t \in 0..(NTests - 1) : fails[p][t + 1] = <<>>

\* ---- C13: a TEST with a list of participant counts is registered as one
\* case per listed count, consecutively and in the listed order, each with
\* the declaration's name and entry point and an empty ledger of its own;
\* the driver runs each as a case of its own, in a communicator of exactly
\* that many processes.
CasesOfDecl(k) ==
  [i \in 1..Len(test_decls[k].sizes) |->
     [fptr |-> test_decls[k].fptr, test_size |-> test_decls[k].sizes[i],
      test_name |-> k]]

Declared == Flatten([k \in 1..Len(test_decls) |-> CasesOfDecl(k)])

\* every process holds the communicator MPI_Comm_split made for case t
SplitOver(t) ==
  \A p \in Ranks :
    ti[p] = t /\ pc[p] \in BeforeRecv \cup {"recv", "waitall", "bar216"}

C13_OneCasePerListedCount ==
  /\ tests = Declared
  /\ \A p \in Ranks : \A t \in 0..(NTests - 1) :
       /\ fails[p][t + 1] # <<>> => \E k \in 1..Len(ran[p]) : ran[p][k] = t
       /\ (ti[p] = t /\ pc[p] \in BeforeRecv \cup {"recv", "waitall"}) =>
            test_comm[p] = [id |-> t, color |-> 1]
  /\ \A t \in 0..(NTests - 1) :
       SplitOver(t) =>
         Cardinality({p \in Ranks : test_comm[p] = [id |-> t, color |-> 1]})
           = Test(t).test_size
  /\ \A k \in 1..Len(LinesOf({"running"})) :
       LinesOf({"running"})[k].text
         = <<Test(k - 1).test_name, Test(k - 1).test_size>>
  /\ (AllDone /\ ~TooFew) => Len(LinesOf({"running"})) = NTests

\* TEST(name, 2, 1): two cases of one name, run by two and then by one process
C13_Witness ==
  /\ AllDone
  /\ Len(test_decls) = 1 /\ test_decls[1].sizes = <<2, 1>>
  /\ size >= 2
  /\ ran[0] = <<0, 1>> /\ ran[1] = <<0>>
  /\ fails[1][1] # <<>>

\* ---- C14: the tolerance predicate fails whenever either operand is a NaN
\* or an infinity, whatever the other operand, ulp_tol and abs_tol are; the
\* one record it makes names each such operand with what it is and holds
\* nothing of the absolute or the ulp comparison.
GarbageMessages ==
  {"the first argument is nan!", "the first argument is inf!",
   "the second argument is nan!", "the second argument is inf!"}

Names(reason, text) == \E k \in 1..Len(reason) : reason[k] = text

C14_GarbageFails ==
  (call.pred = "ieee" /\ call.evals > 0 /\ Garbage(call)) =>
    /\ ~call.ret
    /\ Len(Ledger(0)) = call.evals
    /\ \A k \in 1..Len(Ledger(0)) :
         LET reason == Ledger(0)[k].reason
         IN  /\ \A j \in 1..Len(reason) : reason[j] \in GarbageMessages
             /\ Names(reason, "the first argument is nan!") <=> isnan(call.a)
             /\ Names(reason, "the first argument is inf!") <=> isinf(call.a)
             /\ Names(reason, "the second argument is nan!") <=> isnan(call.b)
             /\ Names(reason, "the second argument is inf!") <=> isinf(call.b)

\* a finite first operand against a NaN, with a NaN abs_tol
C14_Witness ==
  /\ call.pred = "ieee" /\ call.evals = 1
  /\ ~isnan(call.a) /\ ~isinf(call.a) /\ isnan(call.b)
  /\ isnan(call.abs_tol) /\ call.ulp_tol < 0
  /\ Len(Ledger(0)) = 1

\* ---- C15: on the ulp path (finite operands of the same sign, not both
\* below abs_tol) the tolerance predicate fails exactly when the unsigned
\* difference of the two bit patterns exceeds ulp_tol, for every int
\* ulp_tol, zero and negative ones included.
UnsignedDifference(au, bu) == IF au > bu THEN au - bu ELSE bu - au

OnUlpPath(c) ==
  /\ c.pred = "ieee"
  /\ ~Garbage(c)
  /\ signbit(c.a) = signbit(c.b)
  /\ ~(LessThan(fabs(c.a), c.abs_tol) /\ LessThan(fabs(c.b), c.abs_tol))

C15_FailsIffDifferenceExceeds ==
  (call.evals > 0 /\ OnUlpPath(call)) =>
    (~call.ret <=> UnsignedDifference(call.a, call.b) > call.ulp_tol)

\* ---- C16: the root prints exactly one summary line per case: the success
\* line exactly when the gathered counts sum to zero, the failure line
\* otherwise, and the failure line only when every failure message of the
\* case has been received and printed.
GatheredTotal(t) == SumTo(num_fails_by_rank[0], Test(t).test_size)

LastLine(o) == o[Len(o)]

C16_SummaryStep ==
  (Len(out') > Len(out) /\ LastLine(out').kind \in {"success", "fail"}) =>
    LET t == ti[0]
    IN  /\ LastLine(out').by = 0 /\ LastLine(out').test = t
        /\ SummaryLines(t) = <<>>
        /\ LastLine(out').kind = "success" =>
             /\ pc[0] = "gather"
             /\ SumTo(num_fails_by_rank'[0], Test(t).test_size) = 0
        /\ LastLine(out').kind = "fail" =>
             /\ pc[0] = "waitall"
             /\ GatheredTotal(t) # 0
             /\ Len(FailLines(t)) = GatheredTotal(t)
             /\ \A q \in Ranks : \A k \in 1..Len(chan[q]) :
                  chan[q][k].layer # "fail"

C16_OneSummary ==
  \A t \in 0..(NTests - 1) :
    /\ Len(SummaryLines(t)) <= 1
    /\ (ti[0] = t /\ pc[0] \in {"send", "recv", "waitall"}) =>
         (Len(SummaryLines(t)) = 1 <=> GatheredTotal(t) = 0)
    /\ (ti[0] = t /\ pc[0] = "bar216") =>
         /\ Len(SummaryLines(t)) = 1
         /\ SummaryLines(t)[1].kind = "success" <=> GatheredTotal(t) = 0
    /\ ti[0] > t => Len(SummaryLines(t)) = 1

C16_OneSummaryAfterMessages == [][C16_SummaryStep]_vars /\ []C16_OneSummary

\* the failure line of a case follows the three messages of two senders
C16_Witness ==
  /\ pc[0] = "bar216" /\ ti[0] = 0
  /\ Test(0).test_size >= 2
  /\ num_fails_by_rank[0][0] = 1 /\ num_fails_by_rank[0][1] = 2
  /\ Len(FailLines(0)) >= 3
  /\ LastLine(out).kind = "fail"

\* ---- C17: every failure message carries as tag the zero-based index of
\* its record in the sender's ledger of the case and is addressed to rank 0
\* of the case's communicator; a participant sends only after it has handed
\* its count to MPI_Gather, and the root receives only after MPI_Gather has
\* given it every participant's count.
Contributed(p) ==
  \/ gath[p] = Len(fails[p][ti[p] + 1])
  \/ ti[0] = ti[p] /\ pc[0] \in {"send", "recv", "waitall", "bar216"}

Collected(t) ==
  /\ DOMAIN num_fails_by_rank[0] = 0..(Test(t).test_size - 1)
  /\ \A q \in 0..(Test(t).test_size - 1) :
       num_fails_by_rank[0][q] = Len(fails[q][t + 1])

GatherReturned(p) == IF p = 0 THEN Collected(ti[0]) ELSE Contributed(p)

C17_WireContract ==
  /\ \A p \in Ranks : \A k \in 1..Len(chan[p]) :
       chan[p][k].layer = "fail" =>
         /\ chan[p][k].dest = 0
         /\ chan[p][k].comm = [id |-> ti[p], color |-> 1]
         /\ chan[p][k].tag \in 0..(Len(fails[p][ti[p] + 1]) - 1)
         /\ chan[p][k].data
              = FormatFail(p, fails[p][ti[p] + 1][chan[p][k].tag + 1])
         /\ GatherReturned(p)
  /\ \A p \in Ranks : pc[p] \in {"send", "recv"} => GatherReturned(p)

\* rank 1 has sent its two messages, tags 0 and 1, and the root, which has
\* the counts, is about to post its first receive
C17_Witness ==
  /\ size >= 2
  /\ pc[0] = "recv" /\ ri[0] = 1 /\ fi[0] = 0
  /\ Len(chan[1]) = 2
  /\ chan[1][1].tag = 0 /\ chan[1][2].tag = 1
  /\ gath[1] = None

\* ---- C18: a participant whose ledger of the case is empty sends nothing
\* and the root posts no receive for it; when no participant recorded a
\* failure in a case, the harness sends and receives no message in that
\* case's communicator.
HarnessMessages(p) == {k \in 1..Len(chan[p]) : chan[p][k].layer = "fail"}

C18_NothingForEmptyLedgers ==
  /\ \A p \in Ranks :
       (ti[p] < NTests /\ fails[p][ti[p] + 1] = <<>>) =>
         /\ pc[p] # "send"
         /\ HarnessMessages(p) = {}
         /\ ~(pc[0] = "recv" /\ ti[0] = ti[p] /\ ri[0] = p)
  /\ pc[0] = "recv" => fi[0] < num_fails_by_rank[0][ri[0]]
  /\ \A t \in 0..(NTests - 1) :
       NoFailureIn(t) =>
         /\ FailLines(t) = <<>>
         /\ \A p \in Ranks :
              ti[p] = t => pc[p] \notin {"send", "recv"} /\ HarnessMessages(p) = {}

\* the root has received from rank 2 without a receive for rank 1, whose
\* ledger is empty
C18_Witness ==
  \E t \in 0..(NTests - 1) :
    /\ Test(t).test_size = 3
    /\ ti[0] = t /\ pc[0] = "waitall"
    /\ fails[0][t + 1] = <<>> /\ fails[1][t + 1] = <<>>
    /\ Len(fails[2][t + 1]) = 1
    /\ Len(FailLines(t)) = 1

C18_SuccessWitness ==
  \E t \in 0..(NTests - 1) :
    /\ Test(t).test_size = 3 /\ NoFailureIn(t) /\ ti[0] > t

\* ---- C19 as claimed: the wait of a sender does not depend on the root's
\* receive: a process other than the root that is in MPI_Waitall can return
\* from it whatever the root has received.
C19_WaitIndependentOfReceive ==
  \A p \in Ranks \ {0} : pc[p] = "waitall" => ENABLED Finish(p)

\* ---- C19 as amended: the sends are synchronous (MPI_Issend), so a process
\* other than the root has returned from MPI_Waitall only when every
\* failure message it sent has been matched by a receive of rank 0; the
\* root may by then still be receiving from ranks above it.
C19_WaitReturnsAfterMatch ==
  \A p \in Ranks \ {0} :
    (ti[p] < NTests /\ pc[p] = "bar216" /\ Participates(p, ti[p])) =>
      HarnessMessages(p) = {}

\* rank 1 is through its wait, its two messages printed, while the root is
\* blocked in a receive from rank 2
C19_Witness ==
  /\ size = 3
  /\ ti[1] < NTests /\ pc[1] = "bar216" /\ Len(fails[1][ti[1] + 1]) = 2
  /\ pc[0] = "recv" /\ ri[0] = 2
  /\ RecvMatch(0, 2, fi[0]) = 0

\* ---- C20: when every entry point that was invoked has returned, every
\* process goes on to MPI_Finalize: no process stays blocked in a barrier,
\* a receive or a wait, whatever was recorded. A run that has not finished
\* and in which no process is inside an entry point can take a step.
InEntryPoint(p) == pc[p] \in {"b_send", "b_recv", "b_wait", "b_assert"}

C20_EveryProcessFinishes ==
  (\A p \in Ranks : ~InEntryPoint(p)) => (AllDone \/ ENABLED Next)

\* ---- C21: the harness resources of a case are torn down on every path,
\* also when the entry point returned early through an ASSERT_*. A process
\* that is past the aggregation of a case holds no send buffer or count
\* array and has no failure message in flight; a process that is about to
\* create the next sub-group has freed the previous one; a process is a
\* case ahead of another only while that one waits in the closing barrier
\* of the case; and a run that has stopped with every entry point returned
\* has released everything.
PastAggregation(p) == pc[p] \in {"bar216", "split", "done"}

Released(p) == ~buf[p] /\ HarnessMessages(p) = {}

Stopped == (\A p \in Ranks : ~InEntryPoint(p)) /\ ~ENABLED Next

C21_Released == \A p \in Ranks : PastAggregation(p) => Released(p)

C21_Destroyed == \A p \in Ranks : pc[p] \in {"split", "done"} => test_comm[p] = NULL

C21_AllAggregated ==
  \A p, q \in Ranks :
    ti[q] < ti[p] => (ti[q] = ti[p] - 1 /\ pc[q] = "bar216" /\ Released(q))

C21_StoppedClean ==
  Stopped => \A p \in Ranks : Released(p) /\ test_comm[p] = NULL

\* C21: released after aggregation, sub-group destroyed before the next is
\* created, every participant aggregated, and nothing held when the run stops
C21_TornDownOnEveryPath ==
  /\ C21_Released
  /\ C21_Destroyed
  /\ C21_AllAggregated
  /\ C21_StoppedClean

\* ---- C22: the count a participant hands to the count exchange, the sends
\* it then issues and the receives the root posts for it agree, and the
\* ledger does not move while that goes on.
InAggregation(p) ==
  /\ ti[p] < NTests
  /\ Participates(p, ti[p])
  /\ pc[p] \in {"send", "recv", "waitall", "bar216"}

\* the count p handed over: still in the gather, or in the root's array
CountOf(p) == IF gath[p] # None THEN gath[p] ELSE num_fails_by_rank[0][p]

TagsIssued(p) == {issued[p][k] : k \in DOMAIN issued[p]}

ReceivesFor(q) == {k \in DOMAIN received[0] : received[0][k][1] = q}

TagsReceived(q) == {received[0][k][2] : k \in ReceivesFor(q)}

\* the receives the root has posted: those that returned and the one it is in
Posted(q) ==
  Cardinality(ReceivesFor(q)) + (IF pc[0] = "recv" /\ ri[0] = q THEN 1 ELSE 0)

\* the sends of p so far carry the tags 0, 1, ... and are no more than the
\* count; all of them are issued once the send loop is left
SendsMatchCount(p) ==
  LET n == CountOf(p)
  IN  /\ n = Len(fails[p][ti[p] + 1])
      /\ Cardinality(TagsIssued(p)) = Len(issued[p])
      /\ TagsIssued(p) = 0..(Len(issued[p]) - 1)
      /\ Len(issued[p]) <= n
      /\ pc[p] = "send" => Len(issued[p]) = fi[p]
      /\ pc[p] # "send" => Len(issued[p]) = n

\* the receives of the root for source q so far carry the tags 0, 1, ... and
\* are no more than the count of q; all are posted once the loops are left,
\* and they are then the tags of the sends q issued
ReceivesMatchCount(q) ==
  LET n == num_fails_by_rank[0][q]
      m == Cardinality(ReceivesFor(q))
  IN  /\ n = Len(fails[q][ti[0] + 1])
      /\ TagsReceived(q) = 0..(m - 1)
      /\ Posted(q) <= n
      /\ pc[0] = "send" => m = 0
      /\ pc[0] \in {"waitall", "bar216"} => m = n
      /\ (pc[0] \in {"waitall", "bar216"} /\ pc[q] # "send") =>
           /\ Len(issued[q]) = n
           /\ TagsIssued(q) = TagsReceived(q)

C22_State ==
  /\ \A p \in Ranks : InAggregation(p) => SendsMatchCount(p)
  /\ InAggregation(0) => \A q \in Participants(ti[0]) : ReceivesMatchCount(q)

\* from the count exchange to the end of the aggregation the ledgers of a
\* process are what they were
C22_LedgerStep ==
  \A p \in Ranks :
    pc[p] \in {"gather", "send", "recv", "waitall"} => fails'[p] = fails[p]

\* C22: for every case and participant, count contributed = sends issued =
\* receives posted for it, tags 0..count-1 on both sides, ledger unchanged
\* from the count exchange to the end of the aggregation
C22_CountsSendsReceivesAgree == []C22_State /\ [][C22_LedgerStep]_vars

\* two processes: the root holds one record and rank 1 two; three receives
\* have returned and both send loops are through
C22_Witness ==
  /\ size >= 2
  /\ InAggregation(0) /\ pc[0] = "waitall"
  /\ issued[0] = <<0>>
  /\ issued[1] = <<0, 1>>
  /\ received[0] = << <<0, 0>>, <<1, 0>>, <<1, 1>> >>
  /\ num_fails_by_rank[0][1] = 2

====
